---- MODULE Spec2Model ----
(***************************************************************************)
(* Model of src/evaluate_paraphrase_detection_wmt19_paraphrases_de_en.py:  *)
(* the nested loop of main() over model checkpoints, input files and the   *)
(* two directions, with the source-direction caches, predict() over a      *)
(* sequential DataLoader, the merge of the probabilities into the records  *)
(* and the write-back of each file.                                        *)
(*                                                                         *)
(* Names (file basenames, checkpoint directory names) are spelled out as   *)
(* sequences of characters by Chars, so that `"arp" in filename` and the   *)
(* regular expression of line 183 are computed on them.  A probability is  *)
(* represented by the model and the features it was computed from.  disk   *)
(* holds the content of the files the run has opened so far; the content   *)
(* of a file is an input, drawn when the file is read for the first time.  *)
(***************************************************************************)
EXTENDS Integers, Sequences, FiniteSets, TLC

VARIABLES model_paths, input_files, batch_size, disk,
          mi, model, max_seq_length, wmt_source_cache, ar_source_cache,
          fi, store, eval_datasets, i, preds, log, pc, error

vars == <<model_paths, input_files, batch_size, disk,
          mi, model, max_seq_length, wmt_source_cache, ar_source_cache,
          fi, store, eval_datasets, i, preds, log, pc, error>>

\* ------------------------------------------------------------------ bounds
MaxModels == 2
MaxFiles == 2
MaxKeys == 2
MaxBatch == 2

\* ------------------------------------------------------------ input names
\* basenames of the files matched by args.json_glob
FileNames == { "arp", "wmtp", "arpwmtp", "paws" }

\* basename(dirname(model_path)) of the paths matched by
\* args.checkpoints_dir_glob
MetadataNames == { "bML8", "xML16", "b" }

\* the characters of a name
Chars(name) ==
    CASE name = "arp" -> <<"a","r","p">>
      [] name = "wmtp" -> <<"w","m","t","p">>
      [] name = "arpwmtp" -> <<"a","r","p","w","m","t","p">>
      [] name = "paws" -> <<"p","a","w","s">>
      [] name = "bML8" -> <<"b","M","L","8">>
      [] name = "xML16" -> <<"x","M","L","1","6">>
      [] name = "b" -> <<"b">>

\* ------------------------------------------------------- python primitives
None == [isNone |-> TRUE, val |-> <<>>]
Some(v) == [isNone |-> FALSE, val |-> v]

\* `sub in name` on strings
Contains(name, sub) ==
    LET s == Chars(name)
        t == Chars(sub)
    IN  \E k \in 0..(Len(s) - Len(t)) : SubSeq(s, k + 1, k + Len(t)) = t

ARP == "arp"
WMTP == "wmtp"

Digits == {"0","1","2","3","4","5","6","7","8","9"}

DigitVal(c) ==
    CASE c = "0" -> 0 [] c = "1" -> 1 [] c = "2" -> 2 [] c = "3" -> 3
      [] c = "4" -> 4 [] c = "5" -> 5 [] c = "6" -> 6 [] c = "7" -> 7
      [] c = "8" -> 8 [] c = "9" -> 9

RECURSIVE DigitRun(_, _)
\* the greedy match of [0-9]* at position k of s
DigitRun(s, k) ==
    IF k <= Len(s) /\ s[k] \in Digits
    THEN <<s[k]>> \o DigitRun(s, k + 1)
    ELSE <<>>

RECURSIVE int(_)
int(ds) ==
    IF Len(ds) = 1 THEN DigitVal(ds[1])
    ELSE 10 * int(SubSeq(ds, 1, Len(ds) - 1)) + DigitVal(ds[Len(ds)])

\* variant: a name without a usable length falls back to a default of 0
ParseMaxSeqLength_Lenient(md) ==
    LET name == Chars(md)
        hits == { k \in 1..(Len(name) - 1) :
                    name[k] = "M" /\ name[k + 1] = "L" }
    IN  IF hits = {}
        THEN [err |-> "none", val |-> 0]
        ELSE LET k == CHOOSE h \in hits : \A g \in hits : h <= g
                 ds == DigitRun(name, k + 2)
             IN  IF ds = <<>>
                 THEN [err |-> "none", val |-> 0]
                 ELSE [err |-> "none", val |-> int(ds)]

\* line 183: the first "ML", the digits that follow it, int() of them
ParseMaxSeqLength(md) ==
    LET name == Chars(md)
        hits == { k \in 1..(Len(name) - 1) :
                    name[k] = "M" /\ name[k + 1] = "L" }
    IN  IF hits = {}
        THEN [err |-> "AttributeError", val |-> 0]
        ELSE LET k == CHOOSE h \in hits : \A g \in hits : h <= g
                 ds == DigitRun(name, k + 2)
             IN  IF ds = <<>>
                 THEN [err |-> "ValueError", val |-> 0]
                 ELSE [err |-> "none", val |-> int(ds)]

\* ------------------------------------------------------------ corpus files
SENTENCE_ORIGINAL == <<"sentence_original">>
SENTENCE_PARAPHRASE == <<"sentence_paraphrase">>
GOLD_LABEL == <<"gold_label">>

\* a sentence, identified by its file, its key and its place in the record
Sentence(f, k, place) == 100 * f + 10 * k + place

\* the record of key k of the file at position f before the run
InitialRecord(f, k) ==
    (SENTENCE_ORIGINAL :> [source |-> Sentence(f, k, 1), target |-> Sentence(f, k, 2)])
    @@ (SENTENCE_PARAPHRASE :> [source |-> Sentence(f, k, 3), target |-> Sentence(f, k, 4)])
    @@ (GOLD_LABEL :> 1)

\* the numbers of keys of an input file: empty, and the two largest sizes
KeyCounts == {0} \cup ((MaxKeys - 1)..MaxKeys)

\* the values of args.batch_size: one example per batch, and the largest size
BatchSizes == {1, MaxBatch}

InitialStore(f, n) == [k \in 1..n |-> InitialRecord(f, k)]

RECURSIVE SeqsUpTo(_, _)
SeqsUpTo(S, n) ==
    IF n = 0 THEN { <<>> }
    ELSE LET shorter == SeqsUpTo(S, n - 1)
         IN  shorter \cup { Append(s, x) : s \in { t \in shorter : Len(t) = n - 1 }, x \in S }

\* ------------------------------------------------ prepare_prediction_data
\* one row of the TensorDataset: the features of the pair (text_a, text_b)
\* and its label
Features(st, key, side) ==
    [input_ids |-> <<st[key][SENTENCE_ORIGINAL][side],
                     st[key][SENTENCE_PARAPHRASE][side]>>,
     labels |-> st[key][GOLD_LABEL]]

prepare_prediction_data(st) ==
    << [k \in 1..Len(st) |-> Features(st, k, "source")],
       [k \in 1..Len(st) |-> Features(st, k, "target")] >>

\* ---------------------------------------------------------------- predict
\* DataLoader(dataset, sampler=SequentialSampler, batch_size): the batches
NumBatches(ds, bs) == (Len(ds) + bs - 1) \div bs

Batch(ds, bs, n) ==
    SubSeq(ds, (n - 1) * bs + 1, IF n * bs < Len(ds) THEN n * bs ELSE Len(ds))

DataLoader(ds, bs) == [n \in 1..NumBatches(ds, bs) |-> Batch(ds, bs, n)]

\* model(**inputs)[1]: one row of logits per example of the batch
Logits(m, batch) ==
    [k \in 1..Len(batch) |-> [model |-> m, inputs |-> batch[k]]]

RECURSIVE PredsAfter(_, _, _)
\* the value of the local preds of predict() after n batches
PredsAfter(m, dl, n) ==
    IF n = 0 THEN None
    ELSE LET prev == PredsAfter(m, dl, n - 1)
             logits == Logits(m, dl[n])
         IN  IF prev.isNone THEN Some(logits) ELSE Some(prev.val \o logits)

\* softmax(preds, axis=1)[:, 1]
SoftmaxPositive(rows) == [k \in 1..Len(rows) |-> [prob_of |-> rows[k]]]

predict(m, dl) ==
    LET p == PredsAfter(m, dl, Len(dl))
    IN  IF p.isNone
        THEN [err |-> "ValueError", val |-> <<>>]
        ELSE [err |-> "none", val |-> SoftmaxPositive(p.val)]

\* ------------------------------------------------------------ cache policy
\* the condition of lines 203-204
MustCompute(dir, filename, ar, wmt) ==
    \/ dir = 1
    \/ (Contains(filename, ARP) /\ ar.isNone)
    \/ (Contains(filename, WMTP) /\ wmt.isNone)

\* ------------------------------------------------------------------ merge
\* "%s_%s" % (metadata, entry)
Entry(md, dir) == <<md, "_", IF dir = 0 THEN "source" ELSE "target">>

\* variant: store[key] = {entry: value}, the record is replaced
Update_Replace(rec, entry, value) == (entry :> value)

\* store[key].update({entry: value})
Update(rec, entry, value) ==
    [fld \in (DOMAIN rec) \cup {entry} |->
        IF fld = entry THEN value ELSE rec[fld]]

\* the store after the loop of lines 225-226 ran over the first n keys
MergeInto(st, entry, p, n) ==
    [k \in 1..Len(st) |-> IF k <= n THEN Update(st[k], entry, p[k]) ELSE st[k]]

Unbound == None

\* ------------------------------------------------------------------- init
Init ==
    /\ model_paths \in SeqsUpTo(MetadataNames, MaxModels)
    /\ input_files \in SeqsUpTo(FileNames, MaxFiles)
    /\ batch_size \in BatchSizes
    /\ disk = <<>>
    /\ mi = 1
    /\ model = 0
    /\ max_seq_length = 0
    /\ wmt_source_cache = None
    /\ ar_source_cache = None
    /\ fi = 1
    /\ store = <<>>
    /\ eval_datasets = <<>>
    /\ i = 0
    /\ preds = Unbound
    /\ log = "none"
    /\ pc = "model_loop"
    /\ error = "none"

metadata == model_paths[mi]
filename == input_files[fi]

\* what json.load can return for the file at position f: what the run last
\* wrote or read there, or, at its first read, any content of the file
FileContents(f) ==
    IF f \in DOMAIN disk THEN { disk[f] }
    ELSE { InitialStore(f, n) : n \in KeyCounts }

\* ---------------------------------------------------------------- actions
\* variant: lines 192-193 missing, the caches survive the checkpoint change
LoadCheckpoint_NoReset ==
    /\ pc = "model_loop"
    /\ mi <= Len(model_paths)
    /\ ParseMaxSeqLength(metadata).err = "none"
    /\ max_seq_length' = ParseMaxSeqLength(metadata).val
    /\ model' = mi
    /\ fi' = 1
    /\ pc' = "file_loop"
    /\ UNCHANGED <<model_paths, input_files, batch_size, disk, mi, store,
                   eval_datasets, i, preds, log, error, wmt_source_cache,
                   ar_source_cache>>

\* lines 174-193 with a directory name the regular expression accepts
LoadCheckpoint ==
    /\ pc = "model_loop"
    /\ mi <= Len(model_paths)
    /\ ParseMaxSeqLength(metadata).err = "none"
    /\ max_seq_length' = ParseMaxSeqLength(metadata).val
    /\ model' = mi
    /\ wmt_source_cache' = None
    /\ ar_source_cache' = None
    /\ fi' = 1
    /\ pc' = "file_loop"
    /\ UNCHANGED <<model_paths, input_files, batch_size, disk, mi, store,
                   eval_datasets, i, preds, log, error>>

\* line 183 raising: search() returned None, or int("") failed
LoadCheckpointFail ==
    /\ pc = "model_loop"
    /\ mi <= Len(model_paths)
    /\ ParseMaxSeqLength(metadata).err # "none"
    /\ error' = ParseMaxSeqLength(metadata).err
    /\ pc' = "aborted"
    /\ UNCHANGED <<model_paths, input_files, batch_size, disk, mi, model,
                   max_seq_length, wmt_source_cache, ar_source_cache, fi,
                   store, eval_datasets, i, preds, log>>

\* the loop of line 174 is exhausted
Finish ==
    /\ pc = "model_loop"
    /\ mi > Len(model_paths)
    /\ pc' = "done"
    /\ UNCHANGED <<model_paths, input_files, batch_size, disk, mi, model,
                   max_seq_length, wmt_source_cache, ar_source_cache, fi,
                   store, eval_datasets, i, preds, log, error>>

\* lines 194-200: read the next file and build its two datasets
OpenFile ==
    /\ pc = "file_loop"
    /\ fi <= Len(input_files)
    /\ \E content \in FileContents(fi) :
         /\ store' = content
         /\ eval_datasets' = prepare_prediction_data(content)
         /\ disk' = IF fi \in DOMAIN disk THEN disk ELSE Append(disk, content)
    /\ i' = 0
    /\ pc' = "direction"
    /\ UNCHANGED <<model_paths, input_files, batch_size, mi, model,
                   max_seq_length, wmt_source_cache, ar_source_cache, fi,
                   preds, log, error>>

\* the loop of line 194 is exhausted: next checkpoint
NextModel ==
    /\ pc = "file_loop"
    /\ fi > Len(input_files)
    /\ mi' = mi + 1
    /\ pc' = "model_loop"
    /\ UNCHANGED <<model_paths, input_files, batch_size, disk, model,
                   max_seq_length, wmt_source_cache, ar_source_cache, fi,
                   store, eval_datasets, i, preds, log, error>>

\* predict(model, eval_dataloader, args) of line 210 at the current step
Prediction == predict(model, DataLoader(eval_datasets[i + 1], batch_size))

Computes == MustCompute(i, filename, ar_source_cache, wmt_source_cache)

\* the value of preds after lines 203-221, when predict did not raise
NewPreds ==
    IF Computes THEN Some(Prediction.val)
    ELSE IF Contains(filename, ARP) THEN ar_source_cache
    ELSE IF Contains(filename, WMTP) THEN wmt_source_cache
    ELSE preds

\* lines 211-215: the caches after the step
NewArCache ==
    IF Computes /\ i = 0 /\ Contains(filename, ARP)
    THEN NewPreds ELSE ar_source_cache

NewWmtCache ==
    IF Computes /\ i = 0 /\ ~Contains(filename, ARP) /\ Contains(filename, WMTP)
    THEN NewPreds ELSE wmt_source_cache

\* what preds[j] of line 226 raises over the keys of st, if anything
MergeError(st, p) ==
    IF Len(st) = 0 THEN "none"
    ELSE IF p.isNone THEN "NameError"
    ELSE IF Len(p.val) < Len(st) THEN "IndexError"
    ELSE "none"

\* the store after lines 223-226, run to the end or to the key that raises
Merged(st, entry, p) ==
    IF Len(st) = 0 \/ p.isNone THEN st
    ELSE MergeInto(st, entry, p.val,
                   IF Len(p.val) < Len(st) THEN Len(p.val) ELSE Len(st))

\* variant: lines 227-228 inside the loop over the directions, the file is
\* written after each direction
Compute_WriteThrough ==
    /\ pc = "direction"
    /\ Computes
    /\ Prediction.err = "none"
    /\ LET p == NewPreds
       IN  /\ MergeError(store, p) = "none"
           /\ preds' = p
           /\ ar_source_cache' = NewArCache
           /\ wmt_source_cache' = NewWmtCache
           /\ store' = Merged(store, Entry(metadata, i), p)
           /\ disk' = [disk EXCEPT ![fi] = Merged(store, Entry(metadata, i), p)]
    /\ log' = "Initializing prediction"
    /\ IF i = 0
       THEN /\ i' = 1
            /\ pc' = "direction"
       ELSE /\ i' = i
            /\ pc' = "persist"
    /\ UNCHANGED <<model_paths, input_files, batch_size, mi, model,
                   max_seq_length, fi, eval_datasets, error>>

\* lines 203-215 and 222-226: the prediction is computed, cached at i == 0
\* under the name's tag, and merged into the store
Compute ==
    /\ pc = "direction"
    /\ Computes
    /\ Prediction.err = "none"
    /\ LET p == NewPreds
       IN  /\ MergeError(store, p) = "none"
           /\ preds' = p
           /\ ar_source_cache' = NewArCache
           /\ wmt_source_cache' = NewWmtCache
           /\ store' = Merged(store, Entry(metadata, i), p)
    /\ log' = "Initializing prediction"
    /\ IF i = 0
       THEN /\ i' = 1
            /\ pc' = "direction"
       ELSE /\ i' = i
            /\ pc' = "persist"
    /\ UNCHANGED <<model_paths, input_files, batch_size, disk, mi, model,
                   max_seq_length, fi, eval_datasets, error>>

\* line 210 raising inside predict(): no batch, softmax(None)
ComputeFail ==
    /\ pc = "direction"
    /\ Computes
    /\ Prediction.err # "none"
    /\ error' = Prediction.err
    /\ log' = "Initializing prediction"
    /\ pc' = "aborted"
    /\ UNCHANGED <<model_paths, input_files, batch_size, disk, mi, model,
                   max_seq_length, wmt_source_cache, ar_source_cache, fi,
                   store, eval_datasets, i, preds>>

\* lines 216-226: the else branch, and the merge of what preds then holds
UseCache ==
    /\ pc = "direction"
    /\ ~Computes
    /\ LET p == NewPreds
       IN  /\ MergeError(store, p) = "none"
           /\ preds' = p
           /\ store' = Merged(store, Entry(metadata, i), p)
    /\ log' = "Using cached results instead of re-computing"
    /\ IF i = 0
       THEN /\ i' = 1
            /\ pc' = "direction"
       ELSE /\ i' = i
            /\ pc' = "persist"
    /\ UNCHANGED <<model_paths, input_files, batch_size, disk, mi, model,
                   max_seq_length, wmt_source_cache, ar_source_cache, fi,
                   eval_datasets, error>>

\* line 226 raising: preds was never assigned, or is shorter than the keys
MergeFail ==
    /\ pc = "direction"
    /\ Computes => Prediction.err = "none"
    /\ LET p == NewPreds
       IN  /\ MergeError(store, p) # "none"
           /\ error' = MergeError(store, p)
           /\ preds' = p
           /\ store' = Merged(store, Entry(metadata, i), p)
    /\ ar_source_cache' = NewArCache
    /\ wmt_source_cache' = NewWmtCache
    /\ log' = IF Computes THEN "Initializing prediction"
              ELSE "Using cached results instead of re-computing"
    /\ pc' = "aborted"
    /\ UNCHANGED <<model_paths, input_files, batch_size, disk, mi, model,
                   max_seq_length, fi, eval_datasets, i>>

\* lines 227-228: the file is overwritten with the whole store
Persist ==
    /\ pc = "persist"
    /\ disk' = [disk EXCEPT ![fi] = store]
    /\ fi' = fi + 1
    /\ pc' = "file_loop"
    /\ UNCHANGED <<model_paths, input_files, batch_size, mi, model,
                   max_seq_length, wmt_source_cache, ar_source_cache,
                   store, eval_datasets, i, preds, log, error>>

Next ==
    \/ LoadCheckpoint
    \/ LoadCheckpointFail
    \/ Finish
    \/ OpenFile
    \/ NextModel
    \/ Compute
    \/ ComputeFail
    \/ UseCache
    \/ MergeFail
    \/ Persist

Spec == Init /\ [][Next]_vars

\* ------------------------------------------------- definitions for claims
COMPUTED == "Initializing prediction"
REUSED == "Using cached results instead of re-computing"

Tagged(name, tag) == Contains(name, tag)

\* what predict() returns for the source dataset of the file at position f
SourcePredictionOf(f) ==
    predict(model, DataLoader(prepare_prediction_data(disk[f])[1], batch_size))

HasBothFields(rec, md) ==
    /\ Entry(md, 0) \in DOMAIN rec
    /\ Entry(md, 1) \in DOMAIN rec

HasNoField(rec, md) ==
    /\ Entry(md, 0) \notin DOMAIN rec
    /\ Entry(md, 1) \notin DOMAIN rec

\* the name contains "ML" followed by at least one digit
WellFormed(md) ==
    LET name == Chars(md)
    IN  \E k \in 1..(Len(name) - 2) :
          name[k] = "M" /\ name[k + 1] = "L" /\ name[k + 2] \in Digits

\* the source step of the current file has just run, to its end or to the
\* key where the merge raised
SourceStepDone ==
    \/ (pc = "direction" /\ i = 1)
    \/ (pc = "aborted" /\ i = 0 /\ error \in {"NameError", "IndexError"})

\* C1: at the source step of a file whose name carries neither tag the
\* engine is invoked on the file's own source dataset and the values merged
\* into the "<metadata>_source" field are the result of that invocation.
C1_UntaggedSourceComputed ==
    (/\ pc = "direction"
     /\ i = 1
     /\ Len(store) > 0
     /\ ~Tagged(filename, ARP)
     /\ ~Tagged(filename, WMTP))
    => /\ log = COMPUTED
       /\ SourcePredictionOf(fi).err = "none"
       /\ \A k \in 1..Len(store) :
            store[k][Entry(metadata, 0)] = SourcePredictionOf(fi).val[k]

\* C2: at the source step of a "wmtp" file that follows another "wmtp" file
\* under the same checkpoint, predict is not invoked and the vector that is
\* merged is the one computed at the source step of the first "wmtp" file.
C2_SecondWmtpReusesFirst ==
    (/\ SourceStepDone
     /\ Tagged(filename, WMTP)
     /\ \E f \in 1..(fi - 1) : Tagged(input_files[f], WMTP))
    => LET first == CHOOSE f \in 1..(fi - 1) :
                      /\ Tagged(input_files[f], WMTP)
                      /\ \A g \in 1..(f - 1) : ~Tagged(input_files[g], WMTP)
       IN  /\ log = REUSED
           /\ preds = Some(SourcePredictionOf(first).val)

\* C3: both cache slots are empty on entry to a checkpoint's file loop, a
\* populated slot holds a vector computed by the loaded checkpoint's model,
\* and every probability the merge step has written under the current
\* checkpoint's field names was computed by the model of that checkpoint.
C3_CacheIsolation ==
    /\ (pc = "file_loop" /\ fi = 1)
         => (ar_source_cache.isNone /\ wmt_source_cache.isNone)
    /\ \A c \in {ar_source_cache, wmt_source_cache} :
         ~c.isNone => \A k \in 1..Len(c.val) : c.val[k].prob_of.model = model
    /\ pc \in {"direction", "persist"} => model = mi
    /\ (pc = "direction" /\ i = 1)
         => \A k \in 1..Len(store) :
               store[k][Entry(metadata, 0)].prob_of.model = mi
    /\ pc = "persist"
         => \A k \in 1..Len(store) : \A dir \in {0, 1} :
               store[k][Entry(metadata, dir)].prob_of.model = mi

C3_Witness ==
    /\ pc = "direction"
    /\ mi = 2
    /\ i = 1
    /\ log = REUSED
    /\ Len(store) > 0
    /\ ~preds.isNone

\* C4 as stated: when a file is persisted every record holds every field it
\* held on disk before with an unchanged value, and exactly two fields more.
C4_Original ==
    [][pc = "persist" =>
        \A k \in 1..Len(store) :
          /\ \A fld \in DOMAIN disk[fi][k] :
               /\ fld \in DOMAIN disk'[fi][k]
               /\ disk'[fi][k][fld] = disk[fi][k][fld]
          /\ (DOMAIN disk'[fi][k]) \ (DOMAIN disk[fi][k])
               = {Entry(metadata, 0), Entry(metadata, 1)}]_vars

\* C4 amended: when a file is persisted every record holds the two fields
\* "<metadata>_source" and "<metadata>_target", holds no other field that it
\* did not hold before, and every other field it held before is unchanged.
C4_MergeAdditivity ==
    [][pc = "persist" =>
        /\ Len(disk'[fi]) = Len(disk[fi])
        /\ \A k \in 1..Len(store) :
             /\ DOMAIN disk'[fi][k]
                  = (DOMAIN disk[fi][k])
                      \cup {Entry(metadata, 0), Entry(metadata, 1)}
             /\ \A fld \in DOMAIN disk[fi][k] :
                  fld \notin {Entry(metadata, 0), Entry(metadata, 1)}
                    => disk'[fi][k][fld] = disk[fi][k][fld]]_vars

C4_Witness ==
    /\ pc = "file_loop"
    /\ mi = 2
    /\ fi = 2
    /\ model_paths[1] # model_paths[2]
    /\ Len(disk[1]) > 0
    /\ HasBothFields(disk[1][1], model_paths[1])
    /\ HasBothFields(disk[1][1], model_paths[2])

\* C5: with well-formed checkpoint names the run ends in its terminal state
\* and there every key of every file carries both fields of every checkpoint.
C5_RunCompletes ==
    (/\ pc \in {"done", "aborted"}
     /\ \A m \in 1..Len(model_paths) : WellFormed(model_paths[m]))
    => /\ pc = "done"
       /\ \A m \in 1..Len(model_paths) : \A f \in 1..Len(input_files) :
            /\ f \in DOMAIN disk
            /\ \A k \in 1..Len(disk[f]) :
                 HasBothFields(disk[f][k], model_paths[m])

\* C6: predict over the sequential DataLoader of any dataset returns one
\* value per example, the k-th computed from the k-th example.
C6_PredictAligned ==
    (pc = "direction"
       /\ MustCompute(i, filename, ar_source_cache, wmt_source_cache))
    => LET ds == eval_datasets[i + 1]
           r == predict(model, DataLoader(ds, batch_size))
       IN  /\ r.err = "none"
           /\ Len(r.val) = Len(ds)
           /\ \A k \in 1..Len(ds) : r.val[k].prob_of.inputs = ds[k]

\* C7: from a state whose current checkpoint name lacks "ML<digits>" the
\* only step is the abort, which reads and writes no file and keeps every
\* file on disk as it is; nothing follows it.
C7_MalformedAborts ==
    [][(mi <= Len(model_paths) /\ ~WellFormed(metadata)) =>
        /\ pc = "model_loop"
        /\ pc' = "aborted"
        /\ UNCHANGED <<disk, store, eval_datasets, mi, fi, model>>]_vars

C7_Witness ==
    /\ pc = "aborted"
    /\ mi = 2
    /\ ~WellFormed(metadata)
    /\ \E f \in DOMAIN disk :
         /\ Len(disk[f]) > 0
         /\ HasBothFields(disk[f][1], model_paths[1])

\* C8: the content of a file on disk changes only at the persist step, which
\* overwrites the current file alone with a store that holds both fields of
\* the current checkpoint on every key and then moves to the next file; so
\* every file on disk holds, for every checkpoint, both fields on every key
\* or neither field on any key.
C8_PersistOncePerFile ==
    /\ [][(\E f \in DOMAIN disk : disk'[f] # disk[f]) =>
           /\ pc = "persist"
           /\ pc' = "file_loop"
           /\ fi' = fi + 1
           /\ disk' = [disk EXCEPT ![fi] = store]
           /\ \A k \in 1..Len(store) : HasBothFields(store[k], metadata)]_vars
    /\ [](\A f \in DOMAIN disk : \A m \in 1..Len(model_paths) :
            \/ \A k \in 1..Len(disk[f]) : HasBothFields(disk[f][k], model_paths[m])
            \/ \A k \in 1..Len(disk[f]) : HasNoField(disk[f][k], model_paths[m]))

C8_Witness ==
    /\ pc = "aborted"
    /\ error = "IndexError"
    /\ fi = 2
    /\ store # disk[fi]
    /\ Len(disk[1]) > 0
    /\ HasBothFields(disk[1][1], metadata)
    /\ \A k \in 1..Len(disk[2]) : HasNoField(disk[2][k], metadata)

\* C9: a cache slot changes only by the reset on entry to a checkpoint or
\* by a source step that computed for a file carrying the slot's tag while
\* the slot was empty; and such a computation populates the slot.
C9_CacheWrittenOnce ==
    [][/\ ar_source_cache' # ar_source_cache =>
            \/ (pc = "model_loop" /\ ar_source_cache'.isNone)
            \/ /\ pc = "direction"
               /\ i = 0
               /\ log' = COMPUTED
               /\ Tagged(filename, ARP)
               /\ ar_source_cache.isNone
               /\ ar_source_cache' = preds'
       /\ wmt_source_cache' # wmt_source_cache =>
            \/ (pc = "model_loop" /\ wmt_source_cache'.isNone)
            \/ /\ pc = "direction"
               /\ i = 0
               /\ log' = COMPUTED
               /\ Tagged(filename, WMTP)
               /\ wmt_source_cache.isNone
               /\ wmt_source_cache' = preds'
       /\ (pc = "direction" /\ i = 0 /\ pc' = "direction" /\ log' = COMPUTED) =>
            /\ (Tagged(filename, ARP) /\ ar_source_cache.isNone)
                 => ar_source_cache' = preds'
            /\ (Tagged(filename, WMTP) /\ wmt_source_cache.isNone)
                 => wmt_source_cache' = preds']_vars

\* C10: whenever the merge step has run over the keys of a file, to the end
\* or to the key where it raised, the vector it took the values from has
\* exactly as many entries as the file has keys.
C10_VectorMatchesKeys ==
    (/\ \/ pc = "direction" /\ i = 1
        \/ pc = "persist"
        \/ pc = "aborted" /\ error \in {"NameError", "IndexError"}
     /\ Len(store) > 0)
    => /\ ~preds.isNone
       /\ Len(preds.val) = Len(store)

====
